---- MODULE Spec2Model ----
(***************************************************************************)
(* A model of scripts/elsevier_api_client.py and scripts/utils.py: the     *)
(* query builder (write_query), the paginated search (search_database),    *)
(* the PlumX counter lookup (extract_count, access_citation_counts), the   *)
(* metrics enricher (get_plumx_metrics) and the object retrieval           *)
(* (retrieve_article_graphics).                                            *)
(*                                                                         *)
(* Python values.  An optional value is a tuple: None is <<>> and a value  *)
(* x is <<x>>.  A Python str is a sequence of tokens (for query strings)   *)
(* or of characters (for names that the code lowercases or searches).      *)
(***************************************************************************)
EXTENDS Integers, Sequences, FiniteSets, TLC

VARIABLES
    pc,            \* position of the running call
    err,           \* the exception that ended the call, "none" if none
    q_in,          \* write_query: its arguments
    q_out,         \* write_query: the params dictionary it returned
    s_in,          \* search_database: its arguments
    provider,      \* search_database: the provider's total and page size
    params,        \* search_database: the params dictionary of the requests
    all_entries,   \* search_database: the accumulated entries
    fetches,       \* search_database: page requests issued so far
    pauses,        \* search_database: time.sleep calls so far
    s_log,         \* search_database: requests, offset updates and sleeps, in order
    files,         \* search_database: the output files written, in order
    s_ret,         \* search_database: the returned list
    c_in,          \* access_citation_counts: its arguments
    c_out,         \* access_citation_counts: the returned dictionary
    m_entries,     \* get_plumx_metrics: the entries list
    m_i,           \* get_plumx_metrics: the loop index (0-based)
    article_doi,   \* get_plumx_metrics: the local variable article_doi
    lookups,       \* get_plumx_metrics: the analytics requests issued
    m_ret,         \* get_plumx_metrics: the returned list
    save_to_file,  \* get_plumx_metrics: the argument save_to_file
    g_in,          \* retrieve_article_graphics: arguments and index document
    graphics,      \* retrieve_article_graphics: the sorted graphic references
    gr_idx,        \* retrieve_article_graphics: graphics handled so far
    gr_log,        \* retrieve_article_graphics: graphic downloads attempted
    man_urls,      \* retrieve_article_graphics: the manuscript urls, in list order
    man_log,       \* retrieve_article_graphics: manuscript downloads attempted
    man_phase      \* retrieve_article_graphics: the manuscript phase was entered

vars == <<pc, err, q_in, q_out, s_in, provider, params, all_entries, fetches,
          pauses, s_log, files, s_ret, c_in, c_out, m_entries, m_i, article_doi,
          lookups, m_ret, save_to_file, g_in, graphics, gr_idx, gr_log, man_urls, man_log,
          man_phase>>

qvars == <<q_in, q_out>>
svars == <<s_in, provider, params, all_entries, fetches, pauses, s_log, files,
           s_ret>>
cvars == <<c_in, c_out>>
mvars == <<m_entries, m_i, article_doi, lookups, m_ret, save_to_file>>
gvars == <<g_in, graphics, gr_idx, gr_log, man_urls, man_log, man_phase>>

\* ---------------------------------------------------------------- bounds

\* Longest filter list given to write_query.
MaxTerms == 2

\* Largest number of hits the search provider reports.
MaxTotal == 5

\* Largest page size the search provider serves.
MaxPerPage == 2

\* Largest result cap (max_results) given to search_database.
MaxCap == 3

\* Longest category list of an analytics document.
MaxCats == 2

\* Longest entries list given to get_plumx_metrics.
MaxEntries == 3

\* ------------------------------------------------------- Python values

None == <<>>

Some(x) == <<x>>

\* Python truthiness of an optional list or string: None and the empty
\* list (or string) are falsy.
Truthy(opt) == opt # None /\ opt[1] # <<>>

\* Python truthiness of an optional int: None and 0 are falsy.
TruthyInt(opt) == opt # None /\ opt[1] # 0

Min(a, b) == IF a <= b THEN a ELSE b

Max(a, b) == IF a >= b THEN a ELSE b

\* The least k with k * d >= n.
CeilDiv(n, d) == (n + d - 1) \div d

\* The sequence <<a, a + 1, ..., b - 1>>.
Range(a, b) == [k \in 1..(b - a) |-> a + k - 1]

\* All sequences over S of length at most n.
SeqsUpTo(S, n) == UNION {[1..k -> S] : k \in 0..n}

\* Idle values of the variables of the calls a specification does not run.
QIdle == q_in = None /\ q_out = None

SIdle ==
    /\ s_in = None /\ provider = None /\ params = None /\ all_entries = <<>>
    /\ fetches = 0 /\ pauses = 0 /\ s_log = <<>> /\ files = <<>> /\ s_ret = None

CIdle == c_in = None /\ c_out = None

MIdle ==
    /\ m_entries = <<>> /\ m_i = 0 /\ article_doi = None /\ lookups = <<>>
    /\ m_ret = None /\ save_to_file = FALSE

GIdle ==
    /\ g_in = None /\ graphics = None /\ gr_idx = 0 /\ gr_log = <<>>
    /\ man_urls = None /\ man_log = <<>> /\ man_phase = FALSE

\* ------------------------------------------------- utils.join_with_operator

\* The separator f" {operator} " as one token.
Separator(operator) == IF operator = "AND" THEN " AND " ELSE " OR "

RECURSIVE JoinTokens(_, _)
\* str.join: the terms with the separator between consecutive ones.
JoinTokens(search_terms, sep) ==
    IF search_terms = <<>> THEN <<>>
    ELSE IF Len(search_terms) = 1 THEN Head(search_terms)
    ELSE Head(search_terms) \o <<sep>> \o JoinTokens(Tail(search_terms), sep)

\* join_with_operator: every caller passes "AND" or "OR", so the ValueError
\* of an unknown operator is never raised.
join_with_operator(search_terms, operator) ==
    JoinTokens(search_terms, Separator(operator))

\* ------------------------------------------------------------ write_query

\* The search terms a filter list may hold: each a str of one token.
Terms == {<<"a">>, <<"b">>}

\* A filter argument: absent (None), or a list of terms, possibly empty.
FilterArgs == {None} \cup {Some(l) : l \in SeqsUpTo(Terms, MaxTerms)}

DateArgs == {None, Some(<<"2020-2025">>)}

Quoted(keyword) == <<"'">> \o keyword \o <<"'">>

AuId(id) == <<"AU-ID(">> \o id \o <<")">>

TitleClause(keywords) ==
    <<"TITLE(">>
        \o join_with_operator([k \in DOMAIN keywords |-> Quoted(keywords[k])], "AND")
        \o <<")">>

SubjClause(subjs) ==
    <<"SUBJAREA(">> \o join_with_operator(subjs, "OR") \o <<")">>

AuIdClause(author_ids) ==
    join_with_operator([k \in DOMAIN author_ids |-> AuId(author_ids[k])], "OR")

AuthorClause(authors) ==
    <<"AUTHOR-NAME(">> \o join_with_operator(authors, "OR") \o <<")">>

\* query_list with the subject and author-identifier appends exchanged.
MutQueryListSwapped(keywords, subjs, author_ids, authors) ==
    (IF Truthy(keywords) THEN <<TitleClause(keywords[1])>> ELSE <<>>)
        \o (IF Truthy(author_ids) THEN <<AuIdClause(author_ids[1])>> ELSE <<>>)
        \o (IF Truthy(subjs) THEN <<SubjClause(subjs[1])>> ELSE <<>>)
        \o (IF Truthy(authors) THEN <<AuthorClause(authors[1])>> ELSE <<>>)

\* query_list as lines 96-111 build it: one append per truthy filter.
query_list(keywords, subjs, author_ids, authors) ==
    (IF Truthy(keywords) THEN <<TitleClause(keywords[1])>> ELSE <<>>)
        \o (IF Truthy(subjs) THEN <<SubjClause(subjs[1])>> ELSE <<>>)
        \o (IF Truthy(author_ids) THEN <<AuIdClause(author_ids[1])>> ELSE <<>>)
        \o (IF Truthy(authors) THEN <<AuthorClause(authors[1])>> ELSE <<>>)

\* params["query"], line 113.
QueryString(keywords, subjs, author_ids, authors) ==
    join_with_operator(query_list(keywords, subjs, author_ids, authors), "AND")

\* write_query without the empty-query check of lines 115-116.
MutWriteQueryNoCheck(keywords, subjs, author_ids, authors, date_range) ==
    [raised |-> "none",
     params |-> [start |-> 0,
                 count |-> 50,
                 date  |-> IF Truthy(date_range) THEN date_range ELSE None,
                 query |-> QueryString(keywords, subjs, author_ids, authors)]]

\* write_query: the exception it raises ("none" if it returns) and the
\* params dictionary.  "start" is the offset as the request carries it.
write_query(keywords, subjs, author_ids, authors, date_range) ==
    LET query == QueryString(keywords, subjs, author_ids, authors)
    IN  [raised |-> IF query = <<>> THEN "ValueError" ELSE "none",
         params |-> [start |-> 0,
                     count |-> 50,
                     date  |-> IF Truthy(date_range) THEN date_range ELSE None,
                     query |-> query]]

QInit ==
    /\ pc = "write_query"
    /\ err = "none"
    /\ q_in \in {Some(a) : a \in [keywords : FilterArgs, subjs : FilterArgs,
                                    author_ids : FilterArgs, authors : FilterArgs,
                                    date_range : DateArgs]}
    /\ q_out = None
    /\ SIdle /\ CIdle /\ MIdle /\ GIdle

WriteQueryReturn ==
    /\ pc = "write_query"
    /\ LET a == q_in[1]
           r == write_query(a.keywords, a.subjs, a.author_ids, a.authors,
                            a.date_range)
       IN  /\ r.raised = "none"
           /\ q_out' = Some(r.params)
    /\ pc' = "q_returned"
    /\ UNCHANGED <<err, q_in, svars, cvars, mvars, gvars>>

WriteQueryRaise ==
    /\ pc = "write_query"
    /\ LET a == q_in[1]
           r == write_query(a.keywords, a.subjs, a.author_ids, a.authors,
                            a.date_range)
       IN  /\ r.raised # "none"
           /\ err' = r.raised
    /\ pc' = "q_raised"
    /\ UNCHANGED <<q_in, q_out, svars, cvars, mvars, gvars>>

QNext == WriteQueryReturn \/ WriteQueryRaise

SpecQuery == QInit /\ [][QNext]_vars

\* ---- reading a query string back: its top-level clauses

OpenTokens == {"TITLE(", "SUBJAREA(", "AU-ID(", "AUTHOR-NAME("}

RECURSIVE SplitTop(_, _, _, _)
\* The pieces of a query string between the " AND " tokens that stand
\* outside every parenthesis.
SplitTop(tokens, depth, cur, acc) ==
    IF tokens = <<>> THEN Append(acc, cur)
    ELSE LET t == Head(tokens)
         IN  IF t = " AND " /\ depth = 0
             THEN SplitTop(Tail(tokens), 0, <<>>, Append(acc, cur))
             ELSE SplitTop(Tail(tokens),
                           IF t \in OpenTokens THEN depth + 1
                           ELSE IF t = ")" THEN depth - 1 ELSE depth,
                           Append(cur, t), acc)

TopLevelClauses(query) == IF query = <<>> THEN <<>> ELSE SplitTop(query, 0, <<>>, <<>>)

\* The filter category a clause belongs to, read off its first token.
ClauseCategory(clause) ==
    IF clause = <<>> THEN "empty"
    ELSE CASE Head(clause) = "TITLE(" -> "keywords"
           [] Head(clause) = "SUBJAREA(" -> "subjs"
           [] Head(clause) = "AU-ID(" -> "author_ids"
           [] Head(clause) = "AUTHOR-NAME(" -> "authors"
           [] OTHER -> "unknown"

QueryCategories(query) ==
    LET cs == TopLevelClauses(query) IN [k \in DOMAIN cs |-> ClauseCategory(cs[k])]

\* The non-empty filter categories of the arguments, in the fixed order.
GivenCategories(a) ==
    (IF Truthy(a.keywords) THEN <<"keywords">> ELSE <<>>)
        \o (IF Truthy(a.subjs) THEN <<"subjs">> ELSE <<>>)
        \o (IF Truthy(a.author_ids) THEN <<"author_ids">> ELSE <<>>)
        \o (IF Truthy(a.authors) THEN <<"authors">> ELSE <<>>)

\* C3: whenever write_query returns, the top-level " AND "-separated
\* clauses of its query string are exactly one per non-empty filter list, in
\* the order keywords, subjects, author identifiers, author names.
C3_OneClausePerFilter ==
    pc = "q_returned" =>
        QueryCategories(q_out[1].query) = GivenCategories(q_in[1])

\* A returned query of three clauses, the keyword clause holding an inner
\* AND and the subject list given but empty.
C3_Witness ==
    /\ pc = "q_returned"
    /\ Truthy(q_in[1].keywords) /\ Len(q_in[1].keywords[1]) = 2
    /\ q_in[1].subjs = Some(<<>>)
    /\ Truthy(q_in[1].author_ids) /\ Len(q_in[1].author_ids[1]) = 2
    /\ Truthy(q_in[1].authors)
    /\ Len(TopLevelClauses(q_out[1].query)) = 3

\* C4: write_query raises ValueError and returns nothing when every filter
\* list is empty or absent, with or without a date range; a returned params
\* dictionary has a non-empty query string.
C4_EmptyQueryRejected ==
    pc # "write_query" =>
        /\ GivenCategories(q_in[1]) = <<>> =>
               pc = "q_raised" /\ err = "ValueError" /\ q_out = None
        /\ pc = "q_returned" => q_out[1].query # <<>>

\* The call raised with a date range given and an empty keyword list.
C4_Witness ==
    /\ pc = "q_raised"
    /\ err = "ValueError"
    /\ Truthy(q_in[1].date_range)
    /\ q_in[1].keywords = Some(<<>>)
    /\ q_in[1].authors = None

\* -------------------------------------------------------- search_database

\* database_name.lower().strip() on the names given to the model.
NormalisedName(database_name) ==
    CASE database_name = " Scopus " -> "scopus"
      [] database_name = "SciDir" -> "scidir"
      [] OTHER -> database_name

DatabaseArgs == {"scopus", " Scopus ", "sciencedirect", "SciDir", "pubmed"}

\* search_url after lines 236-239, by the endpoint it names; None when
\* neither branch assigned it (the local stays unbound).
SearchUrl(database_name) ==
    CASE database_name = "scopus" -> Some("scopus")
      [] database_name \in {"sciencedirect", "scidir"} -> Some("sciencedirect")
      [] OTHER -> None

\* The provider check with the subject test of lines 243-244 left out.
MutProviderCheckNoSubjs(search_url, author_ids, subjs) ==
    IF Truthy(author_ids)
    THEN IF search_url = None THEN "UnboundLocalError"
         ELSE IF search_url[1] = "sciencedirect" THEN "ValueError" ELSE "none"
    ELSE "none"

\* Lines 241-244: the exception the provider check raises, "none" if none.
\* `x and "sciencedirect" in search_url` reads search_url only when x is
\* truthy, and reading an unbound local raises UnboundLocalError.
ProviderCheck(search_url, author_ids, subjs) ==
    IF Truthy(author_ids) /\ search_url = None THEN "UnboundLocalError"
    ELSE IF Truthy(author_ids) /\ search_url[1] = "sciencedirect" THEN "ValueError"
    ELSE IF Truthy(subjs) /\ search_url = None THEN "UnboundLocalError"
    ELSE IF Truthy(subjs) /\ search_url[1] = "sciencedirect" THEN "ValueError"
    ELSE "none"

RECURSIVE StrOfInt(_)
\* str(n) for n >= 0: the decimal digits, most significant first.
StrOfInt(n) == IF n < 10 THEN <<n>> ELSE Append(StrOfInt(n \div 10), n % 10)

RECURSIVE IntOfStr(_)
\* The provider's reading of the start parameter of a request.
IntOfStr(digits) ==
    IF digits = <<>> THEN 0
    ELSE 10 * IntOfStr(SubSeq(digits, 1, Len(digits) - 1)) + digits[Len(digits)]

\* The page the provider serves for a request at offset start: the entries
\* (each named by its rank in the result list), the total, the start index
\* and the page size, as iterate_search_info returns them.
Page(start) ==
    LET total    == provider[1].total
        per_page == provider[1].per_page
        n        == IF start < total THEN Min(per_page, total - start) ELSE 0
    IN  [entries |-> Range(start, start + n), total |-> total, start |-> start,
         per_page |-> per_page]

\* Line 262 with > for >=.
MutTotalReachedStrict(next_start, total) == next_start > total

\* Line 262: the provider has no entry beyond next_start.
TotalReached(next_start, total) == next_start >= total

\* Line 264 with > for >=.
MutCapReachedStrict(max_results, count) ==
    TruthyInt(max_results) /\ count > max_results[1]

\* Line 264: a cap is set and the accumulated count has reached it.
CapReached(max_results, count) ==
    TruthyInt(max_results) /\ count >= max_results[1]

CapArgs == {None} \cup {Some(n) : n \in 0..MaxCap}

SInit ==
    /\ pc = "search_setup"
    /\ err = "none"
    /\ s_in \in {Some(a) : a \in
            [keywords : {None, Some(<<>>), Some(<<<<"a">>>>)},
             subjs : {None, Some(<<<<"a">>>>)},
             author_ids : {None, Some(<<<<"a">>>>)},
             authors : {None, Some(<<<<"a">>>>)},
             date_range : {None},
             database_name : DatabaseArgs,
             max_results : CapArgs,
             save_to_csv : BOOLEAN]}
    /\ provider \in {Some(p) : p \in [total : 0..MaxTotal, per_page : 1..MaxPerPage]}
    /\ params = None
    /\ all_entries = <<>>
    /\ fetches = 0
    /\ pauses = 0
    /\ s_log = <<>>
    /\ files = <<>>
    /\ s_ret = None
    /\ QIdle /\ CIdle /\ MIdle /\ GIdle

\* The exception lines 233-248 raise, "none" if none.
SetupError(a) ==
    LET check == ProviderCheck(SearchUrl(NormalisedName(a.database_name)),
                               a.author_ids, a.subjs)
    IN  IF check # "none" THEN check
        ELSE write_query(a.keywords, a.subjs, a.author_ids, a.authors,
                         a.date_range).raised

\* Lines 233-250, no exception: the provider check passes and write_query
\* returns.  The start parameter is kept as the request carries it, in
\* decimal digits.
SearchSetup ==
    /\ pc = "search_setup"
    /\ SetupError(s_in[1]) = "none"
    /\ LET a == s_in[1]
           r == write_query(a.keywords, a.subjs, a.author_ids, a.authors,
                            a.date_range)
       IN  params' = Some([r.params EXCEPT !.start = StrOfInt(@)])
    /\ pc' = "fetch"
    /\ UNCHANGED <<err, s_in, provider, all_entries, fetches, pauses, s_log, files,
                   s_ret, qvars, cvars, mvars, gvars>>

\* Lines 233-248, an exception: ValueError of the provider check or of
\* write_query, UnboundLocalError of the unassigned search_url.
SearchSetupRaise ==
    /\ pc = "search_setup"
    /\ SetupError(s_in[1]) # "none"
    /\ err' = SetupError(s_in[1])
    /\ pc' = "s_raised"
    /\ UNCHANGED <<svars, qvars, cvars, mvars, gvars>>

\* The number of times event stands in a sequence of events.
Occurrences(events, event) == Cardinality({k \in DOMAIN events : events[k] = event})

\* The events of an iteration with time.sleep moved before the two breaks.
MutIterationEventsSleepFirst(continues) ==
    IF continues THEN <<"fetch", "sleep", "start">> ELSE <<"fetch", "sleep">>

\* The requests, offset updates and sleeps of one iteration of lines
\* 254-268, in program order: the request of line 254, then, when neither
\* break is taken, the assignment of line 267 and the sleep of line 268.
IterationEvents(continues) ==
    IF continues THEN <<"fetch", "start", "sleep">> ELSE <<"fetch">>

\* One iteration of the loop of lines 252-268 on a well-formed response.
SearchFetch ==
    /\ pc = "fetch"
    /\ SearchUrl(NormalisedName(s_in[1].database_name)) # None
    /\ LET page       == Page(IntOfStr(params[1].start))
           entries    == page.entries
           next_start == page.start + Len(entries)
           count      == Len(all_entries) + Len(entries)
       IN  /\ all_entries' = all_entries \o entries
           /\ fetches' = fetches + 1
           /\ LET halts == TotalReached(next_start, page.total)
                               \/ CapReached(s_in[1].max_results, count)
                  events == IterationEvents(~halts)
              IN  /\ s_log' = s_log \o events
                  /\ pauses' = pauses + Occurrences(events, "sleep")
                  /\ IF halts
                     THEN /\ pc' = "write_json"
                          /\ UNCHANGED params
                     ELSE /\ params' = Some([params[1] EXCEPT
                                                !.start = StrOfInt(next_start)])
                          /\ pc' = "fetch"
    /\ UNCHANGED <<err, s_in, provider, files, s_ret, qvars, cvars, mvars, gvars>>

\* Lines 254-255 on a response without 'search-results' (an error body):
\* iterate_search_info prints and returns None, and unpacking None raises
\* TypeError.
SearchFetchMalformed ==
    /\ pc = "fetch"
    /\ SearchUrl(NormalisedName(s_in[1].database_name)) # None
    /\ fetches' = fetches + 1
    /\ s_log' = Append(s_log, "fetch")
    /\ err' = "TypeError"
    /\ pc' = "s_raised"
    /\ UNCHANGED <<s_in, provider, params, all_entries, pauses, files, s_ret,
                   qvars, cvars, mvars, gvars>>

\* Line 254 with search_url never assigned: UnboundLocalError before any
\* request is issued.
SearchFetchUnbound ==
    /\ pc = "fetch"
    /\ SearchUrl(NormalisedName(s_in[1].database_name)) = None
    /\ err' = "UnboundLocalError"
    /\ pc' = "s_raised"
    /\ UNCHANGED <<svars, qvars, cvars, mvars, gvars>>

\* Lines 270-276: the JSON file holds the accumulated entries.
SearchWriteJson ==
    /\ pc = "write_json"
    /\ files' = Append(files, [kind |-> "json", rows |-> all_entries])
    /\ pc' = IF s_in[1].save_to_csv THEN "write_csv" ELSE "return"
    /\ UNCHANGED <<err, s_in, provider, params, all_entries, fetches, pauses,
                   s_log, s_ret, qvars, cvars, mvars, gvars>>

\* Lines 278-283 on a non-empty list: the CSV file holds the entries.
SearchWriteCsv ==
    /\ pc = "write_csv"
    /\ all_entries # <<>>
    /\ files' = Append(files, [kind |-> "csv", rows |-> all_entries])
    /\ pc' = "return"
    /\ UNCHANGED <<err, s_in, provider, params, all_entries, fetches, pauses,
                   s_log, s_ret, qvars, cvars, mvars, gvars>>

\* Lines 278-283 on an empty list: the file is opened (and so created
\* empty), then all_entries[0] raises IndexError.
SearchWriteCsvEmpty ==
    /\ pc = "write_csv"
    /\ all_entries = <<>>
    /\ files' = Append(files, [kind |-> "csv", rows |-> <<>>])
    /\ err' = "IndexError"
    /\ pc' = "s_raised"
    /\ UNCHANGED <<s_in, provider, params, all_entries, fetches, pauses, s_log, s_ret,
                   qvars, cvars, mvars, gvars>>

\* Line 285.
SearchReturn ==
    /\ pc = "return"
    /\ s_ret' = Some(all_entries)
    /\ pc' = "s_returned"
    /\ UNCHANGED <<err, s_in, provider, params, all_entries, fetches, pauses,
                   s_log, files, qvars, cvars, mvars, gvars>>

SNext ==
    \/ SearchSetup
    \/ SearchSetupRaise
    \/ SearchFetch
    \/ SearchFetchMalformed
    \/ SearchFetchUnbound
    \/ SearchWriteJson
    \/ SearchWriteCsv
    \/ SearchWriteCsvEmpty
    \/ SearchReturn

SpecSearch == SInit /\ [][SNext]_vars

\* ---- search_database: the claims

\* The loop of lines 252-268 was left through a break.
LoopExited ==
    \/ pc \in {"write_json", "write_csv", "return", "s_returned"}
    \/ pc = "s_raised" /\ err = "IndexError"

NoCap == ~TruthyInt(s_in[1].max_results)

PagesOfTotal == CeilDiv(provider[1].total, provider[1].per_page)

\* C1 as stated: without a cap the loop ends after exactly
\* ceil(total / per_page) page fetches with exactly total entries accumulated.
C1_Original ==
    (LoopExited /\ NoCap) =>
        /\ fetches = PagesOfTotal
        /\ Len(all_entries) = provider[1].total

\* C1, amended: without a cap the loop ends after exactly
\* max(1, ceil(total / per_page)) page fetches (the first page is always
\* requested, also when the provider reports 0 hits), it never issues more
\* than that many, and the accumulated list is then the provider's total
\* entries, each once and in order.
C1_FetchCount ==
    NoCap =>
        /\ pc = "fetch" => fetches < Max(1, PagesOfTotal)
        /\ LoopExited =>
              /\ fetches = Max(1, PagesOfTotal)
              /\ all_entries = Range(0, provider[1].total)

\* The scaled case of total = 120, per_page = 50: three fetches, the last
\* page short, all five entries accumulated.
C1_Witness ==
    /\ LoopExited /\ NoCap
    /\ provider[1].total = 5 /\ provider[1].per_page = 2
    /\ fetches = 3
    /\ Len(all_entries) = 5

\* C2: with a cap set, a page is requested only while the accumulated count
\* is below the cap, and every requested page is appended whole: when the
\* loop ends the list holds all entries of the pages fetched, the page that
\* crossed the cap included.
C2_CapAfterAppend ==
    TruthyInt(s_in[1].max_results) =>
        /\ pc = "fetch" => Len(all_entries) < s_in[1].max_results[1]
        /\ LoopExited =>
              all_entries = Range(0, Min(provider[1].total,
                                         fetches * provider[1].per_page))

\* The scaled case of max_results = 10, per_page = 50: the first page alone
\* exceeds the cap, the loop stops after it and keeps the whole page.
C2_Witness ==
    /\ LoopExited
    /\ s_in[1].max_results = Some(1)
    /\ provider[1].per_page = 2 /\ provider[1].total = 5
    /\ fetches = 1
    /\ Len(all_entries) = 2

\* C8: once the loop has halted, search_database returns the accumulated
\* entries, whatever save_to_csv is and also when the list is empty, after
\* writing the JSON file: it raises nothing after the loop.
C8_ReturnsUnconditionally ==
    /\ LoopExited => pc # "s_raised"
    /\ pc = "s_returned" =>
          /\ s_ret = Some(all_entries)
          /\ files # <<>>
          /\ files[1] = [kind |-> "json", rows |-> all_entries]

ForScienceDirect ==
    NormalisedName(s_in[1].database_name) \in {"sciencedirect", "scidir"}

ScopusOnlyFilter == Truthy(s_in[1].author_ids) \/ Truthy(s_in[1].subjs)

\* C9: for "sciencedirect" or "scidir" with an author-identifier or subject
\* filter, search_database raises ValueError before any page request and
\* before any file is written; for "scopus" the same filters pass the setup
\* and the first page is requested.
C9_ProviderRejectsFilters ==
    (pc # "search_setup" /\ ScopusOnlyFilter) =>
        /\ ForScienceDirect =>
              /\ pc = "s_raised" /\ err = "ValueError"
              /\ fetches = 0 /\ files = <<>> /\ s_ret = None
        /\ NormalisedName(s_in[1].database_name) = "scopus" =>
              err # "ValueError" /\ (pc # "fetch" => fetches >= 1)

\* A rejection for "scidir" (given as "SciDir") on a subject filter alone.
C9_Witness ==
    /\ pc = "s_raised" /\ err = "ValueError"
    /\ s_in[1].database_name = "SciDir"
    /\ Truthy(s_in[1].subjs) /\ ~Truthy(s_in[1].author_ids)
    /\ Truthy(s_in[1].keywords)

\* ------------------------------------ extract_count, access_citation_counts

\* Strings the code lowercases, strips or searches are character sequences.
S_news == <<"n", "e", "w", "s">>
S_policy == <<"p", "o", "l", "i", "c", "y">>
S_both == <<"b", "o", "t", "h">>
S_mention == <<"m", "e", "n", "t", "i", "o", "n">>
S_citation == <<"c", "i", "t", "a", "t", "i", "o", "n">>
S_NEWS_COUNT == <<"N", "E", "W", "S", "_", "C", "O", "U", "N", "T">>
S_POLICY_COUNT == <<"P", "O", "L", "I", "C", "Y", "_", "C", "I", "T", "E", "D", "_", "B", "Y", "_", "C", "O", "U", "N", "T">>
S_Scopus == <<"S", "c", "o", "p", "u", "s">>
S_News_sp == <<"N", "e", "w", "s", " ">>
S_other == <<"o", "t", "h", "e", "r">>

\* str.lower on one character.
LowerChar(c) ==
    CASE c = "N" -> "n" [] c = "E" -> "e" [] c = "W" -> "w" [] c = "S" -> "s"
      [] c = "C" -> "c" [] c = "O" -> "o" [] c = "U" -> "u" [] c = "T" -> "t"
      [] c = "P" -> "p" [] c = "L" -> "l" [] c = "I" -> "i" [] c = "Y" -> "y"
      [] c = "D" -> "d" [] c = "B" -> "b" [] c = "G" -> "g" [] c = "R" -> "r"
      [] c = "A" -> "a" [] c = "M" -> "m" [] c = "F" -> "f" [] c = "H" -> "h"
      [] OTHER -> c

\* str.lower.
Lower(str) == [k \in DOMAIN str |-> LowerChar(str[k])]

RECURSIVE Strip(_)
\* str.strip: leading and trailing blanks removed.
Strip(str) ==
    IF str = <<>> THEN <<>>
    ELSE IF Head(str) = " " THEN Strip(Tail(str))
    ELSE IF str[Len(str)] = " " THEN Strip(SubSeq(str, 1, Len(str) - 1))
    ELSE str

\* `sub in str`: sub occurs in str as a contiguous run.
Contains(sub, str) ==
    \E k \in 0..(Len(str) - Len(sub)) : SubSeq(str, k + 1, k + Len(sub)) = sub

RECURSIVE FirstTotal(_, _)
\* The inner loop of lines 148-150: the total of the first count-type whose
\* lowercased name contains citation_type, None when the loop ends without
\* returning.
FirstTotal(types, citation_type) ==
    IF types = <<>> THEN None
    ELSE IF Contains(citation_type, Lower(Head(types).name))
         THEN Some(Head(types).total)
         ELSE FirstTotal(Tail(types), citation_type)

RECURSIVE MutExtractCountSwapped(_, _, _)
\* extract_count reading citation_type as the category name and kind as the
\* count-type name.
MutExtractCountSwapped(categories, citation_type, kind) ==
    IF categories = <<>> THEN 0
    ELSE LET c == Head(categories)
             hit == IF c.name = citation_type THEN FirstTotal(c.count_types, kind)
                    ELSE None
         IN  IF hit # None THEN hit[1]
             ELSE MutExtractCountSwapped(Tail(categories), citation_type, kind)

RECURSIVE extract_count(_, _, _)
\* extract_count, lines 145-152: kind is compared with the category's name,
\* citation_type is searched in the count-type's name.
extract_count(categories, citation_type, kind) ==
    IF categories = <<>> THEN 0
    ELSE LET c == Head(categories)
             hit == IF c.name = kind THEN FirstTotal(c.count_types, citation_type)
                    ELSE None
         IN  IF hit # None THEN hit[1]
             ELSE extract_count(Tail(categories), citation_type, kind)

\* access_citation_counts: the exception it raises ("none" if it returns)
\* and the returned dictionary as a set of <<key, value>> pairs.  Without
\* "count_categories" (or with no document at all) both excepts of lines
\* 174-189 return null counters.
access_citation_counts(plumx_response, citation_type_arg) ==
    LET citation_type == Strip(Lower(citation_type_arg))
    IN  IF plumx_response = None \/ plumx_response[1].count_categories = None
        THEN [raised |-> "none",
              value |-> IF citation_type = S_both
                        THEN {<<S_news, None>>, <<S_policy, None>>}
                        ELSE {<<citation_type, None>>}]
        ELSE LET categories == plumx_response[1].count_categories[1]
             IN  IF citation_type = S_both
                 THEN [raised |-> "none",
                       value |-> {<<S_news, Some(extract_count(categories, S_news, S_mention))>>,
                                  <<S_policy, Some(extract_count(categories, S_policy, S_citation))>>}]
                 ELSE IF citation_type = S_news
                 THEN [raised |-> "none",
                       value |-> {<<S_news, Some(extract_count(categories, S_news, S_mention))>>}]
                 ELSE IF citation_type = S_policy
                 THEN [raised |-> "none",
                       value |-> {<<S_policy, Some(extract_count(categories, S_policy, S_citation))>>}]
                 ELSE [raised |-> "ValueError", value |-> {}]

CategoryNames == {S_news, S_policy, S_mention, S_citation}

CountType(name, total) == [name |-> name, total |-> total]

\* The count-type lists a category of the model may hold.
CountTypeLists ==
    {<<>>,
     <<CountType(S_mention, 7)>>,
     <<CountType(S_citation, 5)>>,
     <<CountType(S_NEWS_COUNT, 7)>>,
     <<CountType(S_Scopus, 3), CountType(S_POLICY_COUNT, 5)>>,
     <<CountType(S_NEWS_COUNT, 7), CountType(S_news, 9)>>}

Categories == [name : CategoryNames, count_types : CountTypeLists]

\* The analytics documents: none at all, one without "count_categories"
\* (with or without "id_value"), one with a category list.
PlumxDoc(has_id, cats) == Some([id_value |-> has_id, count_categories |-> cats])

PlumxResponses ==
    {None, PlumxDoc(TRUE, None), PlumxDoc(FALSE, None)}
        \cup {PlumxDoc(TRUE, Some(cats)) : cats \in SeqsUpTo(Categories, MaxCats)}

CitationTypeArgs == {S_news, S_policy, S_both, S_News_sp, S_other}

CInit ==
    /\ pc = "access_citation_counts"
    /\ err = "none"
    /\ c_in \in {Some(a) : a \in [plumx_response : PlumxResponses,
                                  citation_type : CitationTypeArgs]}
    /\ c_out = None
    /\ QIdle /\ SIdle /\ MIdle /\ GIdle

CountsReturn ==
    /\ pc = "access_citation_counts"
    /\ LET r == access_citation_counts(c_in[1].plumx_response, c_in[1].citation_type)
       IN  /\ r.raised = "none"
           /\ c_out' = Some(r.value)
    /\ pc' = "c_returned"
    /\ UNCHANGED <<err, c_in, qvars, svars, mvars, gvars>>

CountsRaise ==
    /\ pc = "access_citation_counts"
    /\ LET r == access_citation_counts(c_in[1].plumx_response, c_in[1].citation_type)
       IN  /\ r.raised # "none"
           /\ err' = r.raised
    /\ pc' = "c_raised"
    /\ UNCHANGED <<c_in, c_out, qvars, svars, mvars, gvars>>

CNext == CountsReturn \/ CountsRaise

SpecCounts == CInit /\ [][CNext]_vars

\* ---- access_citation_counts: the claims

\* The category list of the document of the call, <<>> when it has none.
DocCategories ==
    LET d == c_in[1].plumx_response
    IN  IF d = None \/ d[1].count_categories = None THEN <<>>
        ELSE d[1].count_categories[1]

HasCategories ==
    LET d == c_in[1].plumx_response
    IN  d # None /\ d[1].count_categories # None

Requested == Strip(Lower(c_in[1].citation_type))

\* The positions <<i, j>> of the count-types under a category named
\* category_name whose lowercased name contains part.
Hits(category_name, part) ==
    {h \in UNION {{<<i, j>> : j \in DOMAIN DocCategories[i].count_types} :
                     i \in DOMAIN DocCategories} :
        /\ DocCategories[h[1]].name = category_name
        /\ Contains(part, Lower(DocCategories[h[1]].count_types[h[2]].name))}

\* The total at the first of these positions, 0 when there is none.
FirstHitTotal(category_name, part) ==
    LET hs == Hits(category_name, part)
    IN  IF hs = {} THEN 0
        ELSE LET first == CHOOSE h \in hs : \A g \in hs :
                              h[1] < g[1] \/ (h[1] = g[1] /\ h[2] <= g[2])
             IN  DocCategories[first[1]].count_types[first[2]].total

\* C5 as stated: with a category named "news" holding a count-type named
\* "mention" of total n, a request for "news" returns {"news": n}; likewise
\* "policy" with the count-type "citation" under the category "policy".
C5_Original ==
    (pc = "c_returned" /\ HasCategories) =>
        /\ (Requested = S_news /\ Hits(S_news, S_mention) # {}) =>
               c_out = Some({<<S_news, Some(FirstHitTotal(S_news, S_mention))>>})
        /\ (Requested = S_policy /\ Hits(S_policy, S_citation) # {}) =>
               c_out = Some({<<S_policy, Some(FirstHitTotal(S_policy, S_citation))>>})

\* C5, amended: a request for "news" returns {"news": n}, n the total of the
\* first count-type whose lowercased name contains "news" under a category
\* named "mention"; a request for "policy" returns likewise the first
\* count-type containing "policy" under a category named "citation"; with no
\* such category or count-type in the list the total is 0, not null.
C5_Counts ==
    (pc = "c_returned" /\ HasCategories) =>
        /\ Requested = S_news =>
               c_out = Some({<<S_news, Some(FirstHitTotal(S_mention, S_news))>>})
        /\ Requested = S_policy =>
               c_out = Some({<<S_policy, Some(FirstHitTotal(S_citation, S_policy))>>})
        /\ (Requested = S_news /\ \A k \in DOMAIN DocCategories :
                                     DocCategories[k].name # S_mention) =>
               c_out = Some({<<S_news, Some(0)>>})

\* A request for "news" on a list with the category "mention" holding
\* NEWS_COUNT = 7 returned {"news": 7}.
C5_Witness ==
    /\ pc = "c_returned"
    /\ Requested = S_news
    /\ HasCategories
    /\ \E k \in DOMAIN DocCategories :
          /\ DocCategories[k].name = S_mention
          /\ DocCategories[k].count_types = <<CountType(S_NEWS_COUNT, 7)>>
    /\ c_out = Some({<<S_news, Some(7)>>})

\* ------------------------------------------------------- get_plumx_metrics

\* An entry is a record: id names the dictionary object, doi is the value of
\* "prism:doi" (None when the key is missing), policy and news are the
\* values of "policy_citation_count" and "news_mentions": None when the key
\* is missing, Some(None) when it holds None, Some(Some(n)) when it holds n.
Dois == {"d1", "d2"}

Entry(id, doi) == [id |-> id, doi |-> doi, policy |-> None, news |-> None]

\* The entries lists given to the call: as search_database returns them,
\* without counters, each with or without a DOI.
EntriesArgs ==
    UNION {{[k \in 1..n |-> Entry(k, ds[k])] :
               ds \in [1..n -> {None} \cup {Some(d) : d \in Dois}]} :
           n \in 0..MaxEntries}

\* An analytics document whose counters are news and policy.
DataDoc(news, policy) ==
    PlumxDoc(TRUE, Some(<<[name |-> S_mention,
                           count_types |-> <<CountType(S_NEWS_COUNT, news)>>],
                          [name |-> S_citation,
                           count_types |-> <<CountType(S_Scopus, 3),
                                             CountType(S_POLICY_COUNT, policy)>>]>>))

\* What fetch_data may return for an analytics request: nothing (a content
\* type it does not know), a document without counters, a document with.
MetricsResponses ==
    {None, PlumxDoc(TRUE, None)}
        \cup {DataDoc(n, p) : n \in {1, 9}, p \in {0, 5}}

\* The value of key in the dictionary access_citation_counts returned.
DictGet(dict, key) == (CHOOSE kv \in dict : kv[1] = key)[2]

\* -inf < x for every number x: an optional int with None for -inf.
Less(x, y) ==
    IF y = None THEN FALSE
    ELSE IF x = None THEN TRUE
    ELSE x[1] < y[1]

\* entry_sorter, lines 322-325: both components are -inf when the policy
\* count is None.  (A None news count beside a policy count would make the
\* tuples incomparable; line 316-318 never produce one.)
entry_sorter(item) ==
    IF item.policy[1] = None THEN <<None, None>>
    ELSE <<item.policy[1], item.news[1]>>

\* The tuple order on sort keys with the second component ignored.
MutKeyLessPolicyOnly(a, b) == Less(a[1], b[1])

\* The tuple order on sort keys.
KeyLess(a, b) == Less(a[1], b[1]) \/ (a[1] = b[1] /\ Less(a[2], b[2]))

\* x put into a descending list behind every item whose key is not smaller.
InsertDesc(sorted, x) ==
    LET smaller == {k \in DOMAIN sorted :
                        KeyLess(entry_sorter(sorted[k]), entry_sorter(x))}
    IN  IF smaller = {} THEN Append(sorted, x)
        ELSE LET at == CHOOSE k \in smaller : \A j \in smaller : k <= j
             IN  SubSeq(sorted, 1, at - 1) \o <<x>> \o SubSeq(sorted, at, Len(sorted))

RECURSIVE SortedDesc(_)
\* sorted (entries, key=entry_sorter, reverse=True): descending and stable.
SortedDesc(seq) ==
    IF seq = <<>> THEN <<>>
    ELSE InsertDesc(SortedDesc(SubSeq(seq, 1, Len(seq) - 1)), seq[Len(seq)])

\* Line 320: the entries that hold both counter keys.
WithCounters(seq) == SelectSeq(seq, LAMBDA e : e.policy # None /\ e.news # None)

MInit ==
    /\ pc = "metrics_loop"
    /\ err = "none"
    /\ m_entries \in EntriesArgs
    /\ m_i = 0
    /\ article_doi = None
    /\ lookups = <<>>
    /\ m_ret = None
    /\ save_to_file \in BOOLEAN
    /\ QIdle /\ SIdle /\ CIdle /\ GIdle

\* article_doi after lines 303-309 for entry: assigned when the entry has a
\* DOI, left as it was (`pass`) when it has none.
DoiAfterTry(entry) == IF entry.doi # None THEN entry.doi ELSE article_doi

\* The entry after lines 303-309: both counters None when it has no DOI.
EntryAfterTry(entry) ==
    IF entry.doi # None THEN entry
    ELSE [entry EXCEPT !.policy = Some(None), !.news = Some(None)]

\* One iteration of the loop of lines 301-318 whose request is answered.
MetricsLookup ==
    /\ pc = "metrics_loop"
    /\ m_i < Len(m_entries)
    /\ LET entry == m_entries[m_i + 1]
           doi   == DoiAfterTry(entry)
       IN  /\ doi # None
           /\ article_doi' = doi
           /\ lookups' = Append(lookups, [index |-> m_i + 1, doi |-> doi[1]])
           /\ \E my_request \in MetricsResponses :
                 LET citation_counts == access_citation_counts(my_request, S_both).value
                 IN  m_entries' = [m_entries EXCEPT ![m_i + 1] =
                         [EntryAfterTry(entry) EXCEPT
                             !.policy = Some(DictGet(citation_counts, S_policy)),
                             !.news = Some(DictGet(citation_counts, S_news))]]
    /\ m_i' = m_i + 1
    /\ UNCHANGED <<pc, err, m_ret, save_to_file, qvars, svars, cvars, gvars>>

\* An iteration whose request fails: fetch_data raises ValueError on an XML
\* response and line 314 is outside every try.
MetricsFetchRaise ==
    /\ pc = "metrics_loop"
    /\ m_i < Len(m_entries)
    /\ LET entry == m_entries[m_i + 1]
           doi   == DoiAfterTry(entry)
       IN  /\ doi # None
           /\ article_doi' = doi
           /\ lookups' = Append(lookups, [index |-> m_i + 1, doi |-> doi[1]])
           /\ m_entries' = [m_entries EXCEPT ![m_i + 1] = EntryAfterTry(entry)]
    /\ err' = "ValueError"
    /\ pc' = "m_raised"
    /\ UNCHANGED <<m_i, m_ret, save_to_file, qvars, svars, cvars, gvars>>

\* An iteration on an entry without DOI before any entry had one: line 311
\* reads the unbound local article_doi and raises UnboundLocalError.
MetricsUnbound ==
    /\ pc = "metrics_loop"
    /\ m_i < Len(m_entries)
    /\ DoiAfterTry(m_entries[m_i + 1]) = None
    /\ m_entries' = [m_entries EXCEPT ![m_i + 1] = EntryAfterTry(@)]
    /\ err' = "UnboundLocalError"
    /\ pc' = "m_raised"
    /\ UNCHANGED <<m_i, article_doi, lookups, m_ret, save_to_file, qvars, svars,
                   cvars, gvars>>

\* Lines 320-341 when the CSV is not written or the list is not empty.
MetricsFinish ==
    /\ pc = "metrics_loop"
    /\ m_i = Len(m_entries)
    /\ ~(save_to_file /\ WithCounters(m_entries) = <<>>)
    /\ m_ret' = Some(SortedDesc(WithCounters(m_entries)))
    /\ pc' = "m_returned"
    /\ UNCHANGED <<err, m_entries, m_i, article_doi, lookups, save_to_file,
                   qvars, svars, cvars, gvars>>

\* Lines 320-338 with save_to_file on an empty list: entries[0] raises
\* IndexError.
MetricsFinishEmpty ==
    /\ pc = "metrics_loop"
    /\ m_i = Len(m_entries)
    /\ save_to_file /\ WithCounters(m_entries) = <<>>
    /\ err' = "IndexError"
    /\ pc' = "m_raised"
    /\ UNCHANGED <<m_entries, m_i, article_doi, lookups, m_ret, save_to_file,
                   qvars, svars, cvars, gvars>>

MNext ==
    \/ MetricsLookup
    \/ MetricsFetchRaise
    \/ MetricsUnbound
    \/ MetricsFinish
    \/ MetricsFinishEmpty

SpecMetrics == MInit /\ [][MNext]_vars

\* ---- get_plumx_metrics: the claims

Returned == IF m_ret = None THEN <<>> ELSE m_ret[1]

\* C6: the returned list is descending by policy-citation count, among equal
\* policy counts descending by news-mention count, and every entry with a
\* null policy count stands behind every entry with a non-null one; it holds
\* the processed entries, each once.
C6_SortedDescending ==
    pc = "m_returned" =>
        /\ \A i, j \in DOMAIN Returned :
              i < j =>
                 LET a == Returned[i]
                     b == Returned[j]
                 IN  /\ a.policy[1] = None => b.policy[1] = None
                     /\ (a.policy[1] # None /\ b.policy[1] # None) =>
                           /\ a.policy[1][1] >= b.policy[1][1]
                           /\ a.policy[1][1] = b.policy[1][1] =>
                                 a.news[1][1] >= b.news[1][1]
        /\ Len(Returned) = Len(m_entries)
        /\ {Returned[k] : k \in DOMAIN Returned}
              = {m_entries[k] : k \in DOMAIN m_entries}

\* The case [{policy 5, news 1}, {policy None}, {policy 5, news 9}]: returned
\* as third, first, second.
C6_Witness ==
    /\ pc = "m_returned"
    /\ Len(m_entries) = 3
    /\ m_entries[1].policy = Some(Some(5)) /\ m_entries[1].news = Some(Some(1))
    /\ m_entries[2].policy = Some(None)
    /\ m_entries[3].policy = Some(Some(5)) /\ m_entries[3].news = Some(Some(9))
    /\ Returned = <<m_entries[3], m_entries[1], m_entries[2]>>

\* C7: an entry without DOI causes no analytics request, ends with both
\* counters None, does not stop the loop and is in the returned list.
C7_NoDoiSkipped ==
    /\ err # "UnboundLocalError"
    /\ \A k \in 1..m_i :
          m_entries[k].doi = None =>
             /\ \A l \in DOMAIN lookups : lookups[l].index # k
             /\ m_entries[k].policy = Some(None)
             /\ m_entries[k].news = Some(None)
             /\ pc = "m_returned" =>
                   \E j \in DOMAIN Returned : Returned[j].id = m_entries[k].id

\* ----------------------------------------------- retrieve_article_graphics

S_gr == <<"g", "r">>
S_am == <<"a", "m">>
S_pdf == <<"p", "d", "f">>

\* An entry of the object index: its reference, its type and its url.
Object(ref, type, url) == [ref |-> ref, type |-> type, url |-> url]

\* The entries an object index of the model may list.  The same reference
\* may be listed twice, once per rendering.
ObjectPool ==
    <<Object(<<"g", "r", "2">>, <<"I", "M", "A", "G", "E", "-", "H", "I", "G", "H", "-", "R", "E", "S">>, "u1"),
      Object(<<"g", "r", "1">>, <<"I", "M", "A", "G", "E", "-", "H", "I", "G", "H", "-", "R", "E", "S">>, "u2"),
      Object(<<"g", "r", "1">>, <<"I", "M", "A", "G", "E", "-", "T", "H", "U", "M", "B", "N", "A", "I", "L">>, "u3"),
      Object(<<"f", "i", "g", "1">>, <<"I", "M", "A", "G", "E", "-", "H", "I", "G", "H", "-", "R", "E", "S">>, "u4"),
      Object(<<"a", "m">>, <<"A", "A", "M", "-", "P", "D", "F">>, "m1"),
      Object(<<"A", "M", "2">>, <<"A", "A", "M", "-", "P", "D", "F">>, "m2")>>

\* The characters of the references, in code-point order.
CodePoints == <<"-", "1", "2", "A", "M", "a", "f", "g", "i", "m", "r">>

Ord(c) == CHOOSE k \in DOMAIN CodePoints : CodePoints[k] = c

RECURSIVE StrLess(_, _)
\* a < b on str: lexicographic by code point.
StrLess(a, b) ==
    IF b = <<>> THEN FALSE
    ELSE IF a = <<>> THEN TRUE
    ELSE IF Head(a) = Head(b) THEN StrLess(Tail(a), Tail(b))
    ELSE Ord(Head(a)) < Ord(Head(b))

RECURSIVE SortedStrs(_)
\* sorted (list (S)) for a set S of str.
SortedStrs(S) ==
    IF S = {} THEN <<>>
    ELSE LET least == CHOOSE x \in S : \A y \in S \ {x} : StrLess(x, y)
         IN  <<least>> \o SortedStrs(S \ {least})

\* Line 376: the references that contain "gr", each once, sorted.
GraphicRefs(object_data) ==
    SortedStrs({object_data[k].ref : k \in
                   {j \in DOMAIN object_data : Contains(S_gr, object_data[j].ref)}})

\* Line 411: the urls of the author manuscripts, as a set.
ManuscriptUrls(object_data) ==
    {object_data[k].url : k \in
        {j \in DOMAIN object_data :
            /\ Contains(S_am, Lower(object_data[j].ref))
            /\ Contains(S_pdf, Lower(object_data[j].type))}}

\* The lists list (S) may produce from a set S, whose order is arbitrary.
ListsOf(S) ==
    {l \in [1..Cardinality(S) -> S] : \A i, j \in DOMAIN l : i # j => l[i] # l[j]}

\* The sublists of the pool, in pool order.
SubLists(pool) ==
    {SelectSeq([k \in DOMAIN pool |-> IF k \in ks THEN <<pool[k]>> ELSE <<>>],
               LAMBDA x : x # <<>>) : ks \in SUBSET (DOMAIN pool)}

ObjectLists == {[k \in DOMAIN l |-> l[k][1]] : l \in SubLists(ObjectPool)}

\* Lines 403-405 returning instead of continuing.
MutAfterGraphicAbort(ok, idx, n) ==
    IF ~ok THEN "g_returned"
    ELSE IF idx < n THEN "gr_loop" ELSE "man_select"

\* Where the graphics loop goes after graphic idx of n: on a failure the
\* except of lines 403-405 continues with the next one.
AfterGraphic(ok, idx, n) == IF idx < n THEN "gr_loop" ELSE "man_select"

\* Where the manuscript loop goes after manuscript idx of n: the except of
\* lines 432-435 returns.
AfterManuscript(ok, idx, n) ==
    IF ~ok THEN "g_returned"
    ELSE IF idx < n THEN "man_loop" ELSE "g_returned"

GInit ==
    /\ pc = "g_start"
    /\ err = "none"
    /\ g_in \in {Some(a) : a \in
            [has_doi : BOOLEAN,
             index : {"raises", "malformed", "ok"},
             object_data : ObjectLists,
             save_manuscript : BOOLEAN]}
    /\ graphics = None
    /\ gr_idx = 0
    /\ gr_log = <<>>
    /\ man_urls = None
    /\ man_log = <<>>
    /\ man_phase = FALSE
    /\ QIdle /\ SIdle /\ CIdle /\ MIdle

\* Lines 357-360: no DOI, nothing is requested.
GraphicsNoDoi ==
    /\ pc = "g_start"
    /\ ~g_in[1].has_doi
    /\ pc' = "g_returned"
    /\ UNCHANGED <<err, gvars, qvars, svars, cvars, mvars>>

\* Lines 362-371: the request of the object index fails.
GraphicsIndexFail ==
    /\ pc = "g_start"
    /\ g_in[1].has_doi
    /\ g_in[1].index = "raises"
    /\ pc' = "g_returned"
    /\ UNCHANGED <<err, gvars, qvars, svars, cvars, mvars>>

\* Lines 362-390: the object index is read; graphics is None when the
\* document has no ['choices']['choice'].
GraphicsIndex ==
    /\ pc = "g_start"
    /\ g_in[1].has_doi
    /\ g_in[1].index # "raises"
    /\ graphics' = IF g_in[1].index = "ok"
                   THEN Some(GraphicRefs(g_in[1].object_data))
                   ELSE None
    /\ pc' = IF g_in[1].index = "ok" /\ GraphicRefs(g_in[1].object_data) # <<>>
             THEN "gr_loop" ELSE "man_select"
    /\ UNCHANGED <<err, g_in, gr_idx, gr_log, man_urls, man_log, man_phase,
                   qvars, svars, cvars, mvars>>

\* One iteration of the loop of lines 393-405: the download succeeds, or it
\* fails and the except continues.
GraphicDownload ==
    /\ pc = "gr_loop"
    /\ \E ok \in BOOLEAN :
          /\ gr_log' = Append(gr_log, [ref |-> graphics[1][gr_idx + 1], ok |-> ok])
          /\ pc' = AfterGraphic(ok, gr_idx + 1, Len(graphics[1]))
    /\ gr_idx' = gr_idx + 1
    /\ UNCHANGED <<err, g_in, graphics, man_urls, man_log, man_phase,
                   qvars, svars, cvars, mvars>>

\* Line 407 with save_manuscript false: the call ends.
GraphicsReturn ==
    /\ pc = "man_select"
    /\ ~g_in[1].save_manuscript
    /\ pc' = "g_returned"
    /\ UNCHANGED <<err, gvars, qvars, svars, cvars, mvars>>

\* Lines 407-420: the manuscript urls are collected, in any order.  With
\* no url the call returns; on a document without object list the
\* comprehension raises and man_urls is None.
ManuscriptSelect ==
    /\ pc = "man_select"
    /\ g_in[1].save_manuscript
    /\ man_phase' = TRUE
    /\ IF g_in[1].index = "ok" /\ ManuscriptUrls(g_in[1].object_data) # {}
       THEN /\ man_urls' \in {Some(l) : l \in ListsOf(ManuscriptUrls(g_in[1].object_data))}
            /\ pc' = "man_loop"
       ELSE /\ man_urls' = None
            /\ pc' = "g_returned"
    /\ UNCHANGED <<err, g_in, graphics, gr_idx, gr_log, man_log,
                   qvars, svars, cvars, mvars>>

\* One iteration of the loop of lines 423-435: the download succeeds, or it
\* fails and the except returns.
ManuscriptDownload ==
    /\ pc = "man_loop"
    /\ \E ok \in BOOLEAN :
          /\ man_log' = Append(man_log, [url |-> man_urls[1][Len(man_log) + 1], ok |-> ok])
          /\ pc' = AfterManuscript(ok, Len(man_log) + 1, Len(man_urls[1]))
    /\ UNCHANGED <<err, g_in, graphics, gr_idx, gr_log, man_urls, man_phase,
                   qvars, svars, cvars, mvars>>

GNext ==
    \/ GraphicsNoDoi
    \/ GraphicsIndexFail
    \/ GraphicsIndex
    \/ GraphicDownload
    \/ GraphicsReturn
    \/ ManuscriptSelect
    \/ ManuscriptDownload

SpecGraphics == GInit /\ [][GNext]_vars

\* ---- retrieve_article_graphics: the claims

IndexRead == g_in[1].has_doi /\ g_in[1].index # "raises" /\ pc # "g_start"

\* C10: a failed graphic download is skipped: the downloads attempted are
\* the graphic references in sorted order, each once, whatever failed, and
\* the manuscript phase is then entered when requested; a failed manuscript
\* download ends the call: it is the last one attempted.
C10_SkipVersusAbort ==
    IndexRead =>
        /\ graphics # None =>
              /\ \A i, j \in DOMAIN graphics[1] :
                    i < j => StrLess(graphics[1][i], graphics[1][j])
              /\ Len(gr_log) = gr_idx
              /\ \A k \in DOMAIN gr_log : gr_log[k].ref = graphics[1][k]
              /\ pc # "gr_loop" => Len(gr_log) = Len(graphics[1])
        /\ (pc = "g_returned" /\ g_in[1].save_manuscript) => man_phase
        /\ \A k \in DOMAIN man_log :
              /\ man_log[k].url = man_urls[1][k]
              /\ ~man_log[k].ok => (k = Len(man_log) /\ pc = "g_returned")
        /\ (pc = "g_returned" /\ man_urls # None
                /\ \A k \in DOMAIN man_log : man_log[k].ok) =>
              Len(man_log) = Len(man_urls[1])

\* Two graphics, the first download failed and the second was still made;
\* two manuscripts, the first download failed and the second was not made.
C10_Witness ==
    /\ pc = "g_returned"
    /\ Len(gr_log) = 2 /\ ~gr_log[1].ok /\ gr_log[2].ok
    /\ man_urls # None /\ Len(man_urls[1]) = 2
    /\ Len(man_log) = 1 /\ ~man_log[1].ok

\* ---- search_database: the pauses

\* C11: the 5-second pause occurs only when pagination continues.  The
\* first event of a run is a page request; every pause stands directly
\* behind the offset update of its iteration and directly before the next
\* page request (or that request is still to come); a page request that is
\* followed by anything is followed by the offset update and one pause; so
\* after k page requests there are k pauses while the loop runs and k - 1
\* once it has ended.
C11_PauseOnlyBetweenFetches ==
    /\ s_log # <<>> => s_log[1] = "fetch"
    /\ \A k \in DOMAIN s_log :
          /\ s_log[k] = "sleep" =>
                /\ k > 1 /\ s_log[k - 1] = "start"
                /\ IF k < Len(s_log) THEN s_log[k + 1] = "fetch" ELSE pc = "fetch"
          /\ (s_log[k] = "fetch" /\ k < Len(s_log)) =>
                /\ k + 2 <= Len(s_log)
                /\ s_log[k + 1] = "start" /\ s_log[k + 2] = "sleep"
          /\ (s_log[k] = "fetch" /\ k = Len(s_log)) => pc # "fetch"
    /\ fetches = Occurrences(s_log, "fetch")
    /\ pauses = Occurrences(s_log, "sleep")
    /\ pc = "fetch" => pauses = fetches
    /\ (pc # "fetch" /\ fetches > 0) => pauses = fetches - 1

\* A run of three page requests and two pauses, ended by the total.
C11_Witness ==
    /\ pc = "s_returned"
    /\ fetches = 3 /\ pauses = 2
    /\ s_log = <<"fetch", "start", "sleep", "fetch", "start", "sleep", "fetch">>

====
